---- MODULE Spec2Model ----
(***************************************************************************)
(* Scheduled-publication engine of EchoSphere                              *)
(* (src/server/services/scheduler.js): the cron-driven scheduling loop,    *)
(* the dispatcher publishPost with its status/retry policy, the attempt    *)
(* log, and the manual publish trigger, run against the Post collection.   *)
(*                                                                         *)
(* Node runs one handler at a time and switches handlers at every await.    *)
(* An action below is the code between two awaits on the Post collection,  *)
(* together with the store operation the second await waits for.  The loop *)
(* over the platforms of a post reads and writes only the handler's own    *)
(* document and appends to the attempt log, so it commutes with every step *)
(* of the other handlers; it is run as part of the step that ends with the *)
(* final save.  Time is counted in minutes.                                *)
(***************************************************************************)
EXTENDS Integers, Sequences, FiniteSets, TLC

(***************************************************************************)
(* Bounds of the model.                                                    *)
(***************************************************************************)
MaxEvents == 3

(***************************************************************************)
(* Program constants.                                                      *)
(***************************************************************************)
MaxRetries == 3
RetryDelayMinutes == 15

Posts == {"p1", "p2"}
PostOrder == <<"p1", "p2">>
MissingId == "p0"

\* The handlers that can be running at once: two overlapping ticks of the
\* timer and one manual publish request.
Ticks == {"t1", "t2"}
Manuals == {"m1"}
Workers == Ticks \cup Manuals

\* A new tick takes the first free slot.
Earlier(u, t) == u = "t1" /\ t = "t2"

VARIABLES
    clock,              \* wall clock, in minutes
    isRunning,          \* SchedulerService.isRunning
    cronJob,            \* SchedulerService.cronJob: "null" or "job"
    timers,             \* number of live node-cron timers
    cronFired,          \* the timer has already fired in the current minute
    store,              \* the Post collection: id -> stored document
    connectedAccounts,  \* the owner's connected platforms (User.connectedAccounts)
    schedulerLogs,      \* the SchedulerLog collection, per post (append-only)
    logRequests,        \* per post, the log saves requested so far (saved or not)
    w,                  \* per running handler (a tick or a manual request): its locals
    returned,           \* what the step just taken returned to its caller, and from whom
    budget,             \* events still to come
    completed,          \* per post, the dispatches that ran up to a successful final save
    exhausted,          \* the posts a dispatch has left failed at the retry limit
    req                 \* the locals of the running update request (PUT /:id)

vars == <<clock, isRunning, cronJob, timers, cronFired, store, connectedAccounts,
          schedulerLogs, logRequests, w, returned, budget, completed, exhausted, req>>

\* What has happened so far, kept for stating properties; no step reads it.
history == <<completed, exhausted>>

----------------------------------------------------------------------------
(***************************************************************************)
(* Documents.                                                              *)
(***************************************************************************)
NoDoc == [id |-> MissingId]

\* A handler that is not running.
IdleWorker == [pc |-> "idle", queue |-> <<>>, post |-> NoDoc]

\* The in-memory document mongoose hands out for a stored post, with the owner
\* populated.  nSaved is the number of results already persisted: save() sends
\* only the entries pushed since.
LoadDoc(id) ==
    [id |-> id,
     status |-> store[id].status,
     scheduledAt |-> store[id].scheduledAt,
     retryCount |-> store[id].retryCount,
     lastAttempt |-> store[id].lastAttempt,
     results |-> store[id].results,
     nSaved |-> Len(store[id].results),
     dirty |-> {},
     platforms |-> store[id].platforms,
     content |-> store[id].content,
     accounts |-> connectedAccounts]

\* The entries pushed onto a document since it was loaded or last saved.
Pushed(post) == SubSeq(post.results, post.nSaved + 1, Len(post.results))

\* Assigning a path of a document: mongoose marks the path modified when the
\* value changes, and save() writes the modified paths only.
SetPath(post, path, value) ==
    IF post[path] = value
    THEN post
    ELSE [post EXCEPT ![path] = value, !.dirty = @ \cup {path}]

\* results.push(entry): the entry is sent by the next save() as a $push.
PushResult(post, entry) == [post EXCEPT !.results = Append(@, entry)]

\* A save that writes the whole results array of the document.
SavedWholeArray(post) ==
    [store EXCEPT ![post.id] =
        [f \in DOMAIN @ |->
            IF f = "results" \/ f \in post.dirty THEN post[f] ELSE @[f]]]

\* A save whose update is applied to every document of the collection.
SavedEverywhere(post) ==
    [id \in Posts |->
        [f \in DOMAIN store[id] |->
            IF f = "results" THEN store[id].results \o Pushed(post)
            ELSE IF f \in post.dirty THEN post[f]
            ELSE store[id][f]]]

\* What post.save() leaves in the collection: the modified paths overwritten,
\* the pushed results appended to the stored array.
Saved(post) ==
    [store EXCEPT ![post.id] =
        [f \in DOMAIN @ |->
            IF f = "results" THEN @.results \o Pushed(post)
            ELSE IF f \in post.dirty THEN post[f]
            ELSE @[f]]]

\* The document after a successful save().
Clean(post) == [post EXCEPT !.dirty = {}, !.nSaved = Len(post.results)]

\* A run has at most MaxEvents events: invocations of a handler, failures of
\* a store operation and advances of the clock.  The step spends n of them.
Spend(n) == budget >= n /\ budget' = budget - n

\* No handler returns in this step.
Nothing == [who |-> "none", result |-> "none"]

\* Handler k returns: its locals are dropped.  A tick ends "completed" or
\* "caught" (its catch block ran); schedulePost returns "success" or "error".
Return(k, result) ==
    /\ w' = [w EXCEPT ![k] = IdleWorker]
    /\ returned' = [who |-> k, result |-> result]

\* Handler k goes on running, with locals next.
Continue(k, next) ==
    /\ w' = [w EXCEPT ![k] = next]
    /\ returned' = Nothing

----------------------------------------------------------------------------
(***************************************************************************)
(* SchedulerService.start / stop / getStatus                               *)
(***************************************************************************)
\* start() without the test of isRunning: every call schedules a job.
startUnguarded ==
    /\ Spend(1)
    /\ cronJob' = "job"
    /\ timers' = timers + 1
    /\ isRunning' = TRUE
    /\ returned' = [who |-> "start", result |-> "started"]
    /\ UNCHANGED <<clock, cronFired, store, connectedAccounts, schedulerLogs, logRequests,
                   w, history, req>>

\* The result names the message start() logs (line 17 or line 27).
start ==
    /\ Spend(1)
    /\ IF isRunning
       THEN /\ returned' = [who |-> "start", result |-> "already_running"]
            /\ UNCHANGED <<cronJob, timers, isRunning>>
       ELSE /\ cronJob' = "job"
            /\ timers' = timers + 1
            /\ isRunning' = TRUE
            /\ returned' = [who |-> "start", result |-> "started"]
    /\ UNCHANGED <<clock, cronFired, store, connectedAccounts, schedulerLogs, logRequests,
                   w, history, req>>

\* stop() that clears the flag and leaves the job alone.
stopFlagOnly ==
    /\ Spend(1)
    /\ returned' = [who |-> "stop", result |-> "stopped"]
    /\ isRunning' = FALSE
    /\ UNCHANGED <<cronJob, timers>>
    /\ UNCHANGED <<clock, cronFired, store, connectedAccounts, schedulerLogs, logRequests,
                   w, history, req>>

\* stop() that also drops the handlers that are under way.
stopAborting ==
    /\ Spend(1)
    /\ IF cronJob # "null"
       THEN /\ timers' = timers - 1
            /\ cronJob' = "null"
            /\ returned' = [who |-> "stop", result |-> "destroyed"]
       ELSE /\ returned' = [who |-> "stop", result |-> "stopped"]
            /\ UNCHANGED <<cronJob, timers>>
    /\ isRunning' = FALSE
    /\ w' = [k \in Workers |-> IdleWorker]
    /\ UNCHANGED <<clock, cronFired, store, connectedAccounts, schedulerLogs, logRequests,
                   history, req>>

\* The result tells whether there was a job to destroy (line 34).
stop ==
    /\ Spend(1)
    /\ IF cronJob # "null"
       THEN /\ timers' = timers - 1
            /\ cronJob' = "null"
            /\ returned' = [who |-> "stop", result |-> "destroyed"]
       ELSE /\ returned' = [who |-> "stop", result |-> "stopped"]
            /\ UNCHANGED <<cronJob, timers>>
    /\ isRunning' = FALSE
    /\ UNCHANGED <<clock, cronFired, store, connectedAccounts, schedulerLogs, logRequests,
                   w, history, req>>

getStatus == [running |-> isRunning, nextRun |-> IF cronJob # "null" THEN "date" ELSE "null"]

----------------------------------------------------------------------------
(***************************************************************************)
(* SchedulerService.processScheduledPosts                                  *)
(***************************************************************************)
\* The filter without its condition on the status.
IsDueAnyStatus(doc, now) ==
    /\ doc.scheduledAt <= now
    /\ doc.retryCount < MaxRetries

\* The filter of the due-post query.
IsDue(doc, now) ==
    /\ doc.scheduledAt <= now
    /\ doc.status \in {"scheduled"}
    /\ doc.retryCount < MaxRetries

\* Post.find(...).populate('userId'): the matching documents, in collection order.
postsToPublish(now) ==
    LET ids == SelectSeq(PostOrder, LAMBDA id : IsDue(store[id], now))
    IN  [n \in 1..Len(ids) |-> LoadDoc(ids[n])]

\* The locals of a handler about to dispatch the head of its list.
Dispatching(docs) == [IdleWorker EXCEPT !.pc = "begin", !.queue = docs, !.post = Head(docs)]

\* The timer fires (once a minute): now is read and the due posts are queried.
\* A query that throws is caught by the tick.
\* found is the list the query resolves to; the loop of lines 58-60 takes
\* it as it is.
processScheduledPostsFinding(t, found) ==
    /\ timers > 0
    /\ ~cronFired
    /\ w[t].pc = "idle"
    /\ \A u \in Ticks : Earlier(u, t) => w[u].pc # "idle"
    /\ cronFired' = TRUE
    /\ \/ /\ Spend(1)
          /\ IF found = <<>>
             THEN Return(t, "completed")
             ELSE Continue(t, Dispatching(found))
       \/ /\ Spend(2)
          /\ Return(t, "caught")
    /\ UNCHANGED <<clock, isRunning, cronJob, timers, store, connectedAccounts, schedulerLogs,
                   logRequests, history, req>>

processScheduledPosts(t) == processScheduledPostsFinding(t, postsToPublish(clock))

----------------------------------------------------------------------------
(***************************************************************************)
(* SchedulerService.publishPost                                            *)
(***************************************************************************)
\* A tick that stops after the first post of its list.
AfterPublishFirstOnly(k) ==
    IF k \in Manuals THEN Return(k, "success") ELSE Return(k, "completed")

\* The caller's continuation once publishPost has returned: a tick goes on to
\* the next post of its list, the manual trigger returns success.
AfterPublish(k) ==
    IF k \in Manuals
    THEN Return(k, "success")
    ELSE IF Len(w[k].queue) > 1
         THEN Continue(k, Dispatching(Tail(w[k].queue)))
         ELSE Return(k, "completed")

\* A tick that catches the failure of each post apart and goes on with the
\* next post of its list.
AfterThrowNextPost(k) ==
    IF k \in Manuals
    THEN Return(k, "error")
    ELSE IF Len(w[k].queue) > 1
         THEN Continue(k, Dispatching(Tail(w[k].queue)))
         ELSE Return(k, "caught")

\* publishPost throws (a save failed): processScheduledPosts catches it and
\* drops the rest of its list, schedulePost returns {success: false}.
AfterThrow(k) ==
    IF k \in Manuals THEN Return(k, "error") ELSE Return(k, "caught")

\* Lines 73-74: the document is marked posting, lastAttempt is the start time.
MarkPosting(post, now) ==
    SetPath(SetPath(post, "status", "posting"), "lastAttempt", {now})

\* The entry of publishPost without schedulePost's check of the status.
publishPostBeginUnchecked(k) ==
    /\ w[k].pc = "begin"
    /\ \/ /\ store' = Saved(MarkPosting(w[k].post, clock))
          /\ Continue(k, [w[k] EXCEPT !.pc = "publish",
                                      !.post = Clean(MarkPosting(w[k].post, clock))])
          /\ UNCHANGED budget
       \/ /\ Spend(1)
          /\ AfterThrow(k)
          /\ UNCHANGED store
    /\ UNCHANGED <<clock, isRunning, cronJob, timers, cronFired, connectedAccounts,
                   schedulerLogs, logRequests, history, req>>

\* The entry of publishPost up to its first await: the status flip is saved.
\* For the manual trigger the status check of schedulePost runs first, in the
\* same turn.
publishPostBegin(k) ==
    /\ w[k].pc = "begin"
    /\ IF k \in Manuals /\ w[k].post.status # "scheduled"
       THEN /\ Return(k, "error")
            /\ UNCHANGED <<store, budget>>
       ELSE \/ /\ store' = Saved(MarkPosting(w[k].post, clock))
               /\ Continue(k, [w[k] EXCEPT !.pc = "publish",
                                           !.post = Clean(MarkPosting(w[k].post, clock))])
               /\ UNCHANGED budget
            \/ /\ Spend(1)
               /\ AfterThrow(k)
               /\ UNCHANGED store
    /\ UNCHANGED <<clock, isRunning, cronJob, timers, cronFired, connectedAccounts,
                   schedulerLogs, logRequests, history, req>>

\* socialMediaService.publishPost: what the platform's publisher can answer.
PublisherOutcomes(platform) ==
    IF platform \in {"twitter", "linkedin", "instagram"}
    THEN {"ok", "publish_failed"}
    ELSE {"unsupported"}

\* publishToPlatform without the check of the owner's account.
publishToPlatformAnyAccount(post, platform) == PublisherOutcomes(platform)

\* publishToPlatform: throws when the owner has no account for the platform,
\* and calls the publisher otherwise.
publishToPlatform(post, platform) ==
    IF platform \notin post.accounts
    THEN {"not_connected"}
    ELSE PublisherOutcomes(platform)

\* The Platform Result pushed for an outcome (lines 88-94 and 105-110).
ResultEntry(platform, outcome) ==
    [platform |-> platform, success |-> (outcome = "ok"), error |-> outcome]

\* The SchedulerLog document of an attempt (lines 161-176).
LogEntry(postId, platform, outcome) ==
    [postId |-> postId, platform |-> platform,
     status |-> IF outcome = "ok" THEN "success" ELSE "failed"]

\* logPublishAttempt: the log document is saved unless the save fails, and a
\* failed save is swallowed.  Gives the log entries written so far.
logPublishAttempt(logged, postId, platform, outcome, saveFails) ==
    IF saveFails THEN logged ELSE Append(logged, LogEntry(postId, platform, outcome))

\* The locals of publishPost before its loop.
LoopStart(post) ==
    [post |-> post, successCount |-> 0, failureCount |-> 0, requests |-> 0, logged |-> <<>>]

\* A loop that logs a failed attempt and pushes no result for it.
LoopTurnSkipsFailure(st, j, outcome, saveFails) ==
    [post |-> IF outcome = "ok"
              THEN PushResult(st.post, ResultEntry(st.post.platforms[j], outcome))
              ELSE st.post,
     successCount |-> IF outcome = "ok" THEN st.successCount + 1 ELSE st.successCount,
     failureCount |-> IF outcome = "ok" THEN st.failureCount ELSE st.failureCount + 1,
     requests |-> st.requests + 1,
     logged |-> logPublishAttempt(st.logged, st.post.id, st.post.platforms[j], outcome,
                                  saveFails)]

\* A loop whose log write is not guarded: a failed log save lands in the catch
\* block of the turn, and the attempt is recorded as failed.
LoopTurnLogThrows(st, j, outcome, saveFails) ==
    LET seen == IF saveFails THEN "log_failed" ELSE outcome
    IN  [post |-> PushResult(st.post, ResultEntry(st.post.platforms[j], seen)),
         successCount |-> IF seen = "ok" THEN st.successCount + 1 ELSE st.successCount,
         failureCount |-> IF seen = "ok" THEN st.failureCount ELSE st.failureCount + 1,
         requests |-> st.requests + 1,
         logged |-> logPublishAttempt(st.logged, st.post.id, st.post.platforms[j], outcome,
                                      saveFails)]

\* One turn of the loop (lines 80-114) for platform number j: the attempt has
\* ended in outcome; it is logged, then its result is pushed and counted.
LoopTurn(st, j, outcome, saveFails) ==
    [post |-> PushResult(st.post, ResultEntry(st.post.platforms[j], outcome)),
     successCount |-> IF outcome = "ok" THEN st.successCount + 1 ELSE st.successCount,
     failureCount |-> IF outcome = "ok" THEN st.failureCount ELSE st.failureCount + 1,
     requests |-> st.requests + 1,
     logged |-> logPublishAttempt(st.logged, st.post.id, st.post.platforms[j], outcome,
                                  saveFails)]

\* The loop over post.platforms up to platform number j, with the outcome of
\* each attempt and the platforms whose log save fails.
RECURSIVE PlatformLoop(_, _, _, _)
PlatformLoop(post, outcomes, lost, j) ==
    IF j = 0
    THEN LoopStart(post)
    ELSE LoopTurn(PlatformLoop(post, outcomes, lost, j - 1), j, outcomes[j], j \in lost)

\* The outcomes the attempts of one dispatch can have, platform by platform.
DispatchOutcomes(post) ==
    {o \in [1..Len(post.platforms) -> {"ok", "publish_failed", "unsupported", "not_connected"}] :
        \A j \in 1..Len(post.platforms) : o[j] \in publishToPlatform(post, post.platforms[j])}

\* The policy with a partial success treated as a failure of the dispatch.
FinalStateAllOrNothing(post, successCount, failureCount, now) ==
    IF successCount > 0 /\ failureCount = 0
    THEN SetPath(post, "status", "posted")
    ELSE LET failed == SetPath(SetPath(post, "status", "failed"),
                               "retryCount", post.retryCount + 1)
         IN  IF failed.retryCount < MaxRetries
             THEN SetPath(SetPath(failed, "status", "scheduled"),
                          "scheduledAt", now + RetryDelayMinutes)
             ELSE failed

\* The policy with the retry counted from the time the post was due.
FinalStateFromDueTime(post, successCount, failureCount, now) ==
    IF successCount > 0
    THEN SetPath(post, "status", "posted")
    ELSE LET failed == SetPath(SetPath(post, "status", "failed"),
                               "retryCount", post.retryCount + 1)
         IN  IF failed.retryCount < MaxRetries
             THEN SetPath(SetPath(failed, "status", "scheduled"),
                          "scheduledAt", post.scheduledAt + RetryDelayMinutes)
             ELSE failed

\* The policy deciding on every result the document holds, old and new.
FinalStateFromHistory(post, successCount, failureCount, now) ==
    IF \E j \in DOMAIN post.results : post.results[j].success
    THEN SetPath(post, "status", "posted")
    ELSE LET failed == SetPath(SetPath(post, "status", "failed"),
                               "retryCount", post.retryCount + 1)
         IN  IF failed.retryCount < MaxRetries
             THEN SetPath(SetPath(failed, "status", "scheduled"),
                          "scheduledAt", now + RetryDelayMinutes)
             ELSE failed

\* Lines 116-131: the status/retry policy.
FinalState(post, successCount, failureCount, now) ==
    IF successCount > 0 /\ failureCount = 0
    THEN SetPath(post, "status", "posted")
    ELSE IF successCount > 0 /\ failureCount > 0
    THEN SetPath(post, "status", "posted")
    ELSE LET failed == SetPath(SetPath(post, "status", "failed"),
                               "retryCount", post.retryCount + 1)
         IN  IF failed.retryCount < MaxRetries
             THEN SetPath(SetPath(failed, "status", "scheduled"),
                          "scheduledAt", now + RetryDelayMinutes)
             ELSE failed

\* The document publishPost saves at line 133, after a loop that ended in st.
FinalDoc(st, now) == FinalState(st.post, st.successCount, st.failureCount, now)

\* publishPost whose loop lets a platform failure through: nothing is saved
\* and the caller sees the error.
publishPostRethrowing(k, outcomes, lost, saveFails) ==
    LET post == w[k].post
        st == PlatformLoop(post, outcomes, lost, Len(post.platforms))
    IN  /\ Spend(Cardinality(lost) + (IF saveFails THEN 1 ELSE 0))
        /\ schedulerLogs' = [schedulerLogs EXCEPT ![post.id] = @ \o st.logged]
        /\ logRequests' = [logRequests EXCEPT ![post.id] = @ + st.requests]
        /\ IF saveFails \/ st.failureCount > 0
           THEN /\ AfterThrow(k)
                /\ UNCHANGED <<store, history, req>>
           ELSE /\ store' = Saved(FinalDoc(st, clock))
                /\ AfterPublish(k)
                /\ completed' = [completed EXCEPT ![post.id] = @ + 1]
                /\ exhausted' = exhausted
                /\ UNCHANGED req
        /\ UNCHANGED <<clock, isRunning, cronJob, timers, cronFired, connectedAccounts>>

\* Lines 77-134 for given outcomes of the attempts, log saves that fail (lost)
\* and outcome of the save at line 133 (saveFails): the platforms are attempted
\* in turn, the final status is decided and saved.
publishPostWith(k, outcomes, lost, saveFails) ==
    LET post == w[k].post
        st == PlatformLoop(post, outcomes, lost, Len(post.platforms))
    IN  /\ Spend(Cardinality(lost) + (IF saveFails THEN 1 ELSE 0))
        /\ schedulerLogs' = [schedulerLogs EXCEPT ![post.id] = @ \o st.logged]
        /\ logRequests' = [logRequests EXCEPT ![post.id] = @ + st.requests]
        /\ IF saveFails
           THEN /\ AfterThrow(k)
                /\ UNCHANGED <<store, history, req>>
           ELSE /\ store' = Saved(FinalDoc(st, clock))
                /\ AfterPublish(k)
                /\ completed' = [completed EXCEPT ![post.id] = @ + 1]
                /\ exhausted' = IF FinalDoc(st, clock).status = "failed"
                                THEN exhausted \cup {post.id}
                                ELSE exhausted
                /\ UNCHANGED req
        /\ UNCHANGED <<clock, isRunning, cronJob, timers, cronFired, connectedAccounts>>

\* Lines 77-134, whatever the publishers and the stores answer.
publishPostRun(k) ==
    /\ w[k].pc = "publish"
    /\ \E outcomes \in DispatchOutcomes(w[k].post) :
          \E lost \in SUBSET (1..Len(outcomes)), saveFails \in BOOLEAN :
             publishPostWith(k, outcomes, lost, saveFails)

----------------------------------------------------------------------------
(***************************************************************************)
(* SchedulerService.schedulePost (POST /api/scheduler/publish/:postId)     *)
(***************************************************************************)
\* Post.findById(postId).populate('userId'); a missing post and a failed read
\* both end in {success: false}.
schedulePost(m, postId) ==
    /\ w[m].pc = "idle"
    /\ \/ /\ Spend(1)
          /\ IF postId \in Posts
             THEN Continue(m, Dispatching(<<LoadDoc(postId)>>))
             ELSE Return(m, "error")
       \/ /\ Spend(2)
          /\ Return(m, "error")
    /\ UNCHANGED <<clock, isRunning, cronJob, timers, cronFired, store, connectedAccounts,
                   schedulerLogs, logRequests, history, req>>

----------------------------------------------------------------------------
\* Time passes: a minute, or up to the instant some stored post falls due.
AdvanceClock ==
    /\ Spend(1)
    /\ \/ clock' = clock + 1
       \/ \E id \in Posts :
             /\ store[id].scheduledAt > clock
             /\ clock' = store[id].scheduledAt
    /\ cronFired' = FALSE
    /\ returned' = Nothing
    /\ UNCHANGED <<isRunning, cronJob, timers, store, connectedAccounts, schedulerLogs,
                   logRequests, w, history, req>>

\* A post as the create route stores it: never attempted.  content is the
\* length of content.text.
NewPost(status, platforms, scheduledAt) ==
    [status |-> status, scheduledAt |-> scheduledAt, retryCount |-> 0,
     lastAttempt |-> {}, results |-> <<>>, platforms |-> platforms,
     content |-> 1, userId |-> "u1"]

\* A post whose first dispatch, RetryDelayMinutes before scheduledAt, failed on
\* every platform: it waits for its first retry.
RetriedPost(platforms, scheduledAt) ==
    [status |-> "scheduled", scheduledAt |-> scheduledAt, retryCount |-> 1,
     lastAttempt |-> {scheduledAt - RetryDelayMinutes},
     results |-> [j \in 1..Len(platforms) |-> ResultEntry(platforms[j], "publish_failed")],
     platforms |-> platforms,
     content |-> 1, userId |-> "u1"]

\* The attempt log that goes with a stored post.
LogsOf(id, post) ==
    [j \in 1..Len(post.results) |->
        LogEntry(id, post.results[j].platform, post.results[j].error)]

\* The posts in the collection when the scheduler is first observed.
FirstPosts == {NewPost("scheduled", <<"twitter", "linkedin", "instagram">>, 0)}
SecondPosts ==
    {NewPost("scheduled", <<"twitter">>, 0),
     NewPost("draft", <<"twitter">>, 0),
     RetriedPost(<<"twitter">>, 0)}

\* No update request is running.
NoRequest == [pc |-> "idle"]

\* The server is up with the scheduler started (index.js line 350), and the
\* collection holds one of the given pairs of posts.
StartedWith(first, second) ==
    /\ clock = 0
    /\ isRunning = TRUE
    /\ cronJob = "job"
    /\ timers = 1
    /\ cronFired = FALSE
    /\ store \in {[id \in Posts |-> IF id = "p1" THEN a ELSE b] :
                    a \in first, b \in second}
    /\ connectedAccounts = {"twitter", "instagram"}
    /\ schedulerLogs = [id \in Posts |-> LogsOf(id, store[id])]
    /\ logRequests = [id \in Posts |-> Len(store[id].results)]
    /\ w = [k \in Workers |-> IdleWorker]
    /\ returned = Nothing
    /\ budget = MaxEvents
    /\ completed = [id \in Posts |-> store[id].retryCount]
    /\ exhausted = {}
    /\ req = NoRequest

Init == StartedWith(FirstPosts, SecondPosts)

Next ==
    \/ \E t \in Ticks : processScheduledPosts(t)
    \/ \E m \in Manuals, id \in Posts \cup {MissingId} : schedulePost(m, id)
    \/ \E k \in Workers : publishPostBegin(k)
    \/ \E k \in Workers : publishPostRun(k)
    \/ AdvanceClock

Spec == Init /\ [][Next]_vars

----------------------------------------------------------------------------
(***************************************************************************)
(* The update route, PUT /api/posts/:id (src/server/routes/posts.js)       *)
(***************************************************************************)
\* SocialMediaService.getPlatformLimits; a limit of 0 stands for a platform
\* without limits (the empty object).
getPlatformLimits(platform) ==
    IF platform = "twitter" THEN [textLimit |-> 280, mediaLimit |-> 4, hashtagLimit |-> 2]
    ELSE IF platform = "linkedin" THEN [textLimit |-> 3000, mediaLimit |-> 1, hashtagLimit |-> 5]
    ELSE IF platform = "instagram" THEN [textLimit |-> 2200, mediaLimit |-> 10, hashtagLimit |-> 30]
    ELSE [textLimit |-> 0, mediaLimit |-> 0, hashtagLimit |-> 0]

\* SocialMediaService.validateContent.  A content is given by the length of
\* its text and the numbers of its hashtags and media items (0 when the
\* field is absent or empty: no such field is ever over a limit).
validateContent(platform, content) ==
    LET limits == getPlatformLimits(platform)
        text == IF limits.textLimit # 0 /\ content.text # 0
                   /\ content.text > limits.textLimit
                THEN <<"text">> ELSE <<>>
        hashtags == IF limits.hashtagLimit # 0 /\ content.hashtags # 0
                       /\ content.hashtags > limits.hashtagLimit
                    THEN <<"hashtags">> ELSE <<>>
        media == IF limits.mediaLimit # 0 /\ content.media # 0
                    /\ content.media > limits.mediaLimit
                 THEN <<"media">> ELSE <<>>
        errors == text \o hashtags \o media
    IN  [isValid |-> Len(errors) = 0, errors |-> errors]

\* The validation loop of the create and update routes (lines 200-208 and
\* 284-292): some target platform finds the text invalid.
Rejects(platforms, text) ==
    \E j \in DOMAIN platforms :
       ~validateContent(platforms[j], [text |-> text, hashtags |-> 0, media |-> 0]).isValid

\* The values the route's validation lets through as body.status.
UpdateStatuses == {"draft", "scheduled", "published"}

\* The updates object of a request made at time now: the paths the body
\* gives, of status and scheduledAt.
UpdateBodies(now) ==
    {[status |-> s] : s \in UpdateStatuses}
       \cup {[scheduledAt |-> now]}
       \cup {[status |-> s, scheduledAt |-> now] : s \in UpdateStatuses}

\* Post.findByIdAndUpdate(id, updates): the given paths are set.
Updated(doc, updates) ==
    [f \in DOMAIN doc |-> IF f \in DOMAIN updates THEN updates[f] ELSE doc[f]]

\* The route answers; the request is over.
Respond(result) ==
    /\ req' = NoRequest
    /\ returned' = [who |-> "u1", result |-> result]

\* Lines 263-278: the post is read and refused when it is posted.
updateFind(id, updates) ==
    /\ req.pc = "idle"
    /\ \/ /\ Spend(1)
          /\ IF id \notin Posts THEN Respond("not_found")
             ELSE IF store[id].status = "posted" THEN Respond("rejected")
             ELSE IF /\ DOMAIN updates \cap {"content", "platforms"} # {}
                     /\ Rejects(Updated(store[id], updates).platforms,
                                Updated(store[id], updates).content)
                  THEN Respond("invalid")
             ELSE /\ req' = [pc |-> "update", id |-> id, updates |-> updates]
                  /\ returned' = Nothing
       \/ /\ Spend(2)
          /\ Respond("error")
    /\ UNCHANGED <<clock, isRunning, cronJob, timers, cronFired, store, connectedAccounts,
                   schedulerLogs, logRequests, w, history>>

\* Line 295: the updates are written, whatever the post has become since.
updateWrite ==
    /\ req.pc = "update"
    /\ \/ /\ store' = [store EXCEPT ![req.id] = Updated(@, req.updates)]
          /\ Respond("updated")
          /\ UNCHANGED budget
       \/ /\ Spend(1)
          /\ Respond("error")
          /\ UNCHANGED store
    /\ UNCHANGED <<clock, isRunning, cronJob, timers, cronFired, connectedAccounts,
                   schedulerLogs, logRequests, w, history>>

\* A post whose first two dispatches failed on every platform: it waits for
\* its last retry.
RetriedTwicePost(platforms, scheduledAt) ==
    [RetriedPost(platforms, scheduledAt) EXCEPT
        !.retryCount = @ + 1,
        !.results = @ \o @]

\* The scheduler together with the owner's update requests.
RoutePosts == {NewPost("scheduled", <<"twitter">>, 0)}
RouteSecondPosts == {NewPost("draft", <<"twitter">>, 0), RetriedTwicePost(<<"twitter">>, 0)}

InitRoutes == StartedWith(RoutePosts, RouteSecondPosts)

NextRoutes ==
    \/ Next
    \/ \E id \in Posts \cup {MissingId}, updates \in UpdateBodies(clock) : updateFind(id, updates)
    \/ updateWrite

SpecRoutes == InitRoutes /\ [][NextRoutes]_vars

----------------------------------------------------------------------------
(***************************************************************************)
(* The create and update routes on content and platforms.                  *)
(***************************************************************************)
Platforms == {"twitter", "linkedin", "instagram"}

\* Text lengths around the limits of the platforms.
TextLengths == {1} \cup {getPlatformLimits(p).textLimit + d : p \in Platforms, d \in {0, 1}}

PlatformLists == {<<"twitter">>, <<"linkedin">>, <<"instagram">>, <<"twitter", "linkedin">>}

\* The bodies of the create requests.
CreateBodies == [content : TextLengths, platforms : PlatformLists, status : {"draft", "scheduled"}]

\* POST /api/posts (lines 185-245): the posts the route stores, those whose
\* text every target platform finds valid.
CreatedPosts ==
    {[NewPost(body.status, body.platforms, 0) EXCEPT !.content = body.content] :
        body \in {b \in CreateBodies : ~Rejects(b.platforms, b.content)}}

\* The updates objects of the requests that edit the text or the platforms.
ContentBodies ==
    {[content |-> n] : n \in TextLengths} \cup {[platforms |-> ps] : ps \in PlatformLists}

\* PUT /api/posts/:id of a second client, run from its read to its write
\* with no other handler in between.
updateWhole(id, updates) ==
    /\ Spend(1)
    /\ IF id \notin Posts
       THEN returned' = [who |-> "u2", result |-> "not_found"] /\ UNCHANGED store
       ELSE IF store[id].status = "posted"
       THEN returned' = [who |-> "u2", result |-> "rejected"] /\ UNCHANGED store
       ELSE IF /\ DOMAIN updates \cap {"content", "platforms"} # {}
               /\ Rejects(Updated(store[id], updates).platforms,
                          Updated(store[id], updates).content)
       THEN returned' = [who |-> "u2", result |-> "invalid"] /\ UNCHANGED store
       ELSE /\ store' = [store EXCEPT ![id] = Updated(@, updates)]
            /\ returned' = [who |-> "u2", result |-> "updated"]
    /\ UNCHANGED <<clock, isRunning, cronJob, timers, cronFired, connectedAccounts,
                   schedulerLogs, logRequests, w, history, req>>

InitContent == StartedWith(CreatedPosts, {NewPost("draft", <<"twitter">>, 0)})

NextContent ==
    \/ \E id \in Posts \cup {MissingId}, updates \in ContentBodies : updateFind(id, updates)
    \/ updateWrite
    \/ \E id \in Posts \cup {MissingId}, updates \in ContentBodies : updateWhole(id, updates)

SpecContent == InitContent /\ [][NextContent]_vars

----------------------------------------------------------------------------
(***************************************************************************)
(* The timer alone: ticks and their dispatches, with a store that never    *)
(* fails, no manual trigger and no request of a user.                      *)
(***************************************************************************)
InitTicks ==
    StartedWith({NewPost("scheduled", <<"twitter", "linkedin">>, 0)},
                {NewPost("scheduled", <<"twitter">>, 0), RetriedTwicePost(<<"twitter">>, 0)})

NextTicks ==
    \/ \E t \in Ticks : processScheduledPosts(t) /\ returned'.result # "caught"
    \/ \E t \in Ticks : publishPostBegin(t) /\ returned'.result # "caught"
    \/ \E t \in Ticks :
          /\ w[t].pc = "publish"
          /\ \E outcomes \in DispatchOutcomes(w[t].post) :
                publishPostWith(t, outcomes, {}, FALSE)
    \/ AdvanceClock

SpecTicks == InitTicks /\ [][NextTicks]_vars

----------------------------------------------------------------------------
(***************************************************************************)
(* The scheduler with its control endpoints (index.js lines 298-314).      *)
(***************************************************************************)
NextLifecycle ==
    \/ Next
    \/ start
    \/ stop

SpecLifecycle == Init /\ [][NextLifecycle]_vars

----------------------------------------------------------------------------
(***************************************************************************)
(* A store whose query may return a document more than once.               *)
(***************************************************************************)
\* The list of a query whose cursor comes upon its first document again.
Duplicated(docs) == docs \o <<Head(docs)>>

\* A tick whose query returned duplicates: nothing between the query (lines
\* 50-54) and the loop (lines 58-60) removes them.
processDuplicates(t) ==
    /\ postsToPublish(clock) # <<>>
    /\ processScheduledPostsFinding(t, Duplicated(postsToPublish(clock)))

NextDuplicates ==
    \/ Next
    \/ \E t \in Ticks : processDuplicates(t)

SpecDuplicates == Init /\ [][NextDuplicates]_vars

----------------------------------------------------------------------------
(***************************************************************************)
(* Vocabulary of the properties.                                           *)
(***************************************************************************)
\* The results the step appends to the stored post id.
Appended(id) ==
    SubSeq(store'[id].results, Len(store[id].results) + 1, Len(store'[id].results))

\* Handler k enters publishPost in this step: the status flip is saved, or the
\* save fails.
Begins(k) == w[k].pc = "begin" /\ w'[k].pc = "publish"

\* Handler k ends a dispatch in this step: its loop has run and the final save
\* has been asked for.  The dispatch finishes when that save is done.
Ends(k) == w[k].pc = "publish" /\ w'[k] # w[k]
Finishes(k) == Ends(k) /\ store' # store

AnySuccess(results) == \E j \in DOMAIN results : results[j].success
AnyFailure(results) == \E j \in DOMAIN results : ~results[j].success

\* The last n entries of a sequence.
LastEntries(seq, n) == SubSeq(seq, Len(seq) - n + 1, Len(seq))

\* One entry per target platform, in the order of the platforms.
OnePerPlatform(results, platforms) ==
    /\ Len(results) = Len(platforms)
    /\ \A j \in DOMAIN results : results[j].platform = platforms[j]

----------------------------------------------------------------------------
\* C1: a dispatch in which at least one platform publish succeeds leaves the
\* post posted, whatever number of other platforms failed; neither its entry
\* nor its final save changes retryCount, and results gains exactly one entry
\* per target platform, successes and failures alike.
C1_PartialSuccess ==
    [][\A k \in Workers :
          LET post == w[k].post
              id == post.id
          IN  /\ Begins(k) => store'[id].retryCount = store[id].retryCount
              /\ Finishes(k) /\ AnySuccess(Appended(id)) =>
                    /\ store'[id].status = "posted"
                    /\ store'[id].retryCount = store[id].retryCount
                    /\ "retryCount" \notin post.dirty
                    /\ OnePerPlatform(Appended(id), post.platforms)]_vars

\* A post is posted after one dispatch with a success and a failure.
C1_Witness ==
    \E id \in Posts :
       /\ store[id].status = "posted"
       /\ completed[id] = 1
       /\ OnePerPlatform(store[id].results, store[id].platforms)
       /\ AnySuccess(store[id].results)
       /\ AnyFailure(store[id].results)

\* C2: a dispatch in which every platform fails, with the incremented
\* retryCount still below the limit, leaves the post scheduled with retryCount
\* one more than the dispatch found and scheduledAt RetryDelayMinutes after the
\* time of the retry decision.
C2_Retry ==
    [][\A k \in Workers :
          LET post == w[k].post
              id == post.id
          IN  Finishes(k) /\ ~AnySuccess(Appended(id)) /\ post.retryCount + 1 < MaxRetries =>
                 /\ store'[id].retryCount = post.retryCount + 1
                 /\ store'[id].status = "scheduled"
                 /\ store'[id].scheduledAt = clock + RetryDelayMinutes]_vars

\* A post waits for a retry decided now, after a dispatch that began earlier.
C2_Witness ==
    \E id \in Posts :
       /\ store[id].status = "scheduled"
       /\ store[id].retryCount > 0
       /\ store[id].scheduledAt = clock + RetryDelayMinutes
       /\ store[id].lastAttempt \notin {{}, {clock}}
       /\ ~AnySuccess(LastEntries(store[id].results, Len(store[id].platforms)))

\* The posts a tick firing at time now would get from its due-post query.
ReturnedByQuery(now) == {postsToPublish(now)[n].id : n \in DOMAIN postsToPublish(now)}

\* C3: once a dispatch in which every platform failed has left a post failed
\* with retryCount at the limit, the due-post query of a tick never returns
\* that post again: not now, and not at any minute up to a retry delay from
\* now.
C3_Exhaustion ==
    \A id \in exhausted :
       \A now \in clock..(clock + RetryDelayMinutes) : id \notin ReturnedByQuery(now)

\* The handlers with a dispatch of post id in flight: the status flip is saved,
\* the final save is not.
InFlight(id) == {k \in Workers : w[k].pc = "publish" /\ w[k].post.id = id}

\* C4: at most one dispatch of a given post is in flight at any time, over
\* every interleaving of ticks and manual publish requests.
C4_MutualExclusion == \A id \in Posts : Cardinality(InFlight(id)) <= 1

\* C5: once the stored status of a post is posted or failed, no step of the
\* scheduler changes its status, retryCount, scheduledAt or results.
C5_Terminal ==
    [][\A id \in Posts :
          store[id].status \in {"posted", "failed"} =>
             /\ store'[id].status = store[id].status
             /\ store'[id].retryCount = store[id].retryCount
             /\ store'[id].scheduledAt = store[id].scheduledAt
             /\ store'[id].results = store[id].results]_vars

\* The conditions of the due-post query, as the specification states them.
Eligible(doc, now) ==
    doc.status = "scheduled" /\ doc.scheduledAt <= now /\ doc.retryCount < MaxRetries

\* The ids of the stored posts that are eligible now, in collection order.
EligibleIds == SelectSeq(PostOrder, LAMBDA id : Eligible(store[id], clock))

\* The ids of a list of documents.
IdsOf(docs) == [n \in DOMAIN docs |-> docs[n].id]

\* The timer fires in this step and runs tick t.
Fires(t) ==
    ~cronFired /\ cronFired' /\ w[t].pc = "idle" /\ (w'[t].pc # "idle" \/ returned'.who = t)

\* Handler k has its catch block run in this step: a store operation failed.
Catches(k) == returned'.who = k /\ returned'.result \in {"caught", "error"}

\* C6: the list a tick hands to the dispatcher holds exactly the posts that,
\* at the time of its query, are scheduled, due and below the retry limit; a
\* tick dispatches the head of that list only, so every post it dispatches met
\* the three conditions when the tick queried.
C6_TickSubmitsDuePosts ==
    /\ [](\A t \in Ticks :
            w[t].pc # "idle" =>
               /\ \A n \in DOMAIN w[t].queue : Eligible(w[t].queue[n], clock)
               /\ w[t].queue # <<>>
               /\ w[t].post.id = Head(w[t].queue).id)
    /\ [][\A t \in Ticks :
             Fires(t) /\ ~Catches(t) =>
                /\ IdsOf(w'[t].queue) = EligibleIds
                /\ \A n \in DOMAIN w'[t].queue :
                      /\ w'[t].queue[n].status = store[w'[t].queue[n].id].status
                      /\ w'[t].queue[n].scheduledAt = store[w'[t].queue[n].id].scheduledAt
                      /\ w'[t].queue[n].retryCount = store[w'[t].queue[n].id].retryCount]_vars

\* A tick has queried while a stored post was scheduled for a later time, and
\* dispatches a list without it.
C6_Witness ==
    \E t \in Ticks, id \in Posts :
       /\ w[t].pc = "begin"
       /\ \A n \in DOMAIN w[t].queue : w[t].queue[n].id # id
       /\ store[id].status = "scheduled"
       /\ store[id].scheduledAt > clock

\* The status the status/retry policy selects for the outcomes of a dispatch.
Policy(results, retryCount) ==
    IF AnySuccess(results) THEN "posted"
    ELSE IF retryCount + 1 < MaxRetries THEN "scheduled"
    ELSE "failed"

\* C7: unless a store operation fails, a tick takes every post of its list in
\* turn, saves it as posting, then saves it with the one status the policy
\* selects, goes on to the next post, and ends after the last one.
C7_TickMovesDuePosts ==
    [][\A t \in Ticks :
          LET post == w[t].post
              id == post.id
          IN  /\ Begins(t) => store'[id].status = "posting"
              /\ Finishes(t) => store'[id].status = Policy(Appended(id), post.retryCount)
              /\ w[t].pc # "idle" /\ w'[t] # w[t] /\ ~Catches(t) =>
                    \/ Begins(t) /\ w'[t].queue = w[t].queue
                    \/ /\ Finishes(t)
                       /\ IF Len(w[t].queue) > 1
                          THEN /\ w'[t].pc = "begin"
                               /\ w'[t].queue = Tail(w[t].queue)
                               /\ w'[t].post = Head(w'[t].queue)
                          ELSE /\ w'[t].pc = "idle"
                               /\ returned' = [who |-> t, result |-> "completed"]]_vars

\* A single tick has run to its end over two due posts: one is posted, the
\* other waits for its first retry.
C7_Witness ==
    /\ returned.who \in Ticks
    /\ returned.result = "completed"
    /\ budget = MaxEvents - 1
    /\ \E a, b \in Posts :
          /\ store[a].status = "posted" /\ completed[a] = 1
          /\ store[b].status = "scheduled" /\ store[b].retryCount = 1 /\ completed[b] = 1
          /\ store[b].lastAttempt = {clock}

\* C8: every dispatch saves the post as posting, with lastAttempt the start
\* time, before its first publisher call, and the publisher calls of a
\* dispatch are made only while the stored status of the post is posting.
C8_PostingBeforePublish ==
    [][\A k \in Workers :
          LET id == w[k].post.id
          IN  /\ Begins(k) =>
                    store'[id].status = "posting" /\ store'[id].lastAttempt = {clock}
              /\ Ends(k) => store[id].status = "posting"]_vars

\* C9: for a target platform the owner has no account for, the dispatch
\* records a failed result with the error account-not-connected; it does not
\* raise on that account, and every other target platform, before and after,
\* gets the result of a publisher call.
C9_MissingAccount ==
    [][\A k \in Workers :
          LET post == w[k].post
              id == post.id
          IN  /\ Ends(k) /\ budget' = budget => Finishes(k) /\ ~Catches(k)
              /\ Finishes(k) =>
                    /\ OnePerPlatform(Appended(id), post.platforms)
                    /\ \A j \in DOMAIN post.platforms :
                          IF post.platforms[j] \in connectedAccounts
                          THEN Appended(id)[j].error \in {"ok", "publish_failed"}
                          ELSE Appended(id)[j] = [platform |-> post.platforms[j],
                                                  success |-> FALSE,
                                                  error |-> "not_connected"]]_vars

\* A post whose second platform has no account was dispatched once: the
\* platforms before and after it were published.
C9_Witness ==
    \E id \in Posts :
       /\ Len(store[id].results) = 3
       /\ store[id].results[1].success
       /\ store[id].results[2].error = "not_connected"
       /\ store[id].results[3].success
       /\ store[id].status = "posted"

\* C10: every dispatch requests one attempt-log write per target platform and
\* appends one result per target platform; stored results only grow at the
\* end, so after k completed dispatches of a post with n target platforms
\* they hold k*n entries.
C10_AppendOnly ==
    /\ [](\A id \in Posts :
            Len(store[id].results) = completed[id] * Len(store[id].platforms))
    /\ [][/\ \A id \in Posts :
               /\ Len(store'[id].results) >= Len(store[id].results)
               /\ SubSeq(store'[id].results, 1, Len(store[id].results)) = store[id].results
          /\ \A k \in Workers :
               LET post == w[k].post
                   id == post.id
               IN  /\ Ends(k) => logRequests'[id] = logRequests[id] + Len(post.platforms)
                   /\ Finishes(k) => OnePerPlatform(Appended(id), post.platforms)]_vars

\* A post was dispatched twice and holds the results of both dispatches.
C10_Witness ==
    \E id \in Posts :
       /\ completed[id] = 2
       /\ Len(store[id].results) = 2 * Len(store[id].platforms)
       /\ logRequests[id] = Len(store[id].results)

----------------------------------------------------------------------------
\* C11: a post stored as posted has a success among the results of the last
\* dispatch that finished on it, and a final save stores posted exactly when
\* the results of that very dispatch hold a success, whatever earlier
\* attempts left in results.
C11_PostedHasSuccess ==
    /\ [](\A id \in Posts :
            store[id].status = "posted" =>
               AnySuccess(LastEntries(store[id].results, Len(store[id].platforms))))
    /\ [][\A k \in Workers :
             Finishes(k) =>
                (store'[w[k].post.id].status = "posted"
                    <=> AnySuccess(Appended(w[k].post.id)))]_vars

\* A post is posted by its second dispatch, after a first one that failed on
\* every platform.
C11_Witness ==
    \E id \in Posts :
       /\ store[id].status = "posted"
       /\ completed[id] = 2
       /\ Len(store[id].results) = 2 * Len(store[id].platforms)
       /\ ~AnySuccess(SubSeq(store[id].results, 1, Len(store[id].platforms)))

\* C12: in every reachable state, over ticks, dispatches, manual publishes and
\* update requests, a post stored as scheduled has retryCount below the limit.
C12_ScheduledBelowLimit ==
    \A id \in Posts : store[id].status = "scheduled" => store[id].retryCount < MaxRetries

\* C13: in every reachable state, over ticks, manual publishes and update
\* requests, the retryCount of every post is within 0..MaxRetries.
C13_RetryCountBounded ==
    \A id \in Posts : store[id].retryCount \in 0..MaxRetries

\* C14: within one tick a post is dispatched at most once, duplicates in the
\* query's result included: the list of posts a tick dispatches one after
\* another names no post twice.
C14_DispatchedOncePerTick ==
    \A t \in Ticks : \A i, j \in DOMAIN w[t].queue :
        w[t].queue[i].id = w[t].queue[j].id => i = j

\* The step is a call of the control operation name: the operation answers
\* in it, and time does not pass.
Calls(name) ==
    /\ returned'.who = name
    /\ budget' = budget - 1
    /\ clock' = clock

\* C15: start() while running leaves the scheduler running with the same
\* single timer, stop() while stopped leaves it stopped with none, and after
\* either call getStatus().running is what one call gives: true after
\* start(), false after stop().  There is never a second timer.
C15_Idempotent ==
    /\ [](timers = IF isRunning THEN 1 ELSE 0)
    /\ [][Calls("start") =>
            /\ getStatus'.running
            /\ isRunning => timers' = timers /\ cronJob' = cronJob /\ getStatus' = getStatus]_vars
    /\ [][Calls("stop") =>
            /\ ~getStatus'.running
            /\ ~isRunning => timers' = timers /\ cronJob' = cronJob /\ getStatus' = getStatus]_vars

\* stop() has been called while stopped, and start() while running.
C15_WitnessStop ==
    /\ returned = [who |-> "stop", result |-> "stopped"]
    /\ ~isRunning
    /\ timers = 0

C15_Witness ==
    /\ returned = [who |-> "start", result |-> "already_running"]
    /\ isRunning
    /\ timers = 1

\* The statuses a dispatch can end in.
FinalStatuses == {"posted", "scheduled", "failed"}

\* C16: a tick begins only while the scheduler is running with a live timer,
\* so none begins between stop() and the next start(); stop() touches neither
\* a handler under way nor a post; and a dispatch that finishes while the
\* scheduler is stopped has attempted every platform and stored a final status.
C16_StopSparesDispatches ==
    /\ [][\A t \in Ticks : Fires(t) => isRunning /\ timers > 0]_vars
    /\ [][Calls("stop") => w' = w /\ store' = store]_vars
    /\ [][\A k \in Workers : ~isRunning /\ Finishes(k) =>
            /\ Len(Appended(w[k].post.id)) = Len(w[k].post.platforms)
            /\ store'[w[k].post.id].status \in FinalStatuses]_vars

\* The scheduler is stopped and a tick that fired before the stop has since
\* finished its last dispatch and returned.
C16_Witness ==
    /\ ~isRunning
    /\ returned.who \in Ticks
    /\ returned.result = "completed"

\* A store operation of tick t fails in this step: its query, or a save of the
\* post it is dispatching.
StoreFails(t) ==
    \/ Fires(t) /\ budget' = budget - 2
    \/ /\ w[t].pc \in {"begin", "publish"}
       /\ w'[t] # w[t]
       /\ budget' < budget
       /\ store' = store

Outcome(post, outcomes, lost, now) ==
    LET st == PlatformLoop(post, outcomes, lost, Len(post.platforms))
    IN  [doc |-> FinalDoc(st, now), successCount |-> st.successCount,
         failureCount |-> st.failureCount]

\* C18: whichever log writes fail, a dispatch under way ends as it would with
\* every log written: the same results pushed, one per platform, the same
\* status, retryCount and scheduledAt; and a dispatch that finishes after
\* losing a log entry has stored one result per platform.
C18_LogFailureHarmless ==
    /\ [](\A k \in Workers : w[k].pc = "publish" =>
            \A outcomes \in DispatchOutcomes(w[k].post) :
               \A lost \in SUBSET (1..Len(outcomes)) :
                  /\ Outcome(w[k].post, outcomes, lost, clock)
                        = Outcome(w[k].post, outcomes, {}, clock)
                  /\ \A j \in 1..Len(outcomes) :
                        LET entry == LastEntries(
                                        Outcome(w[k].post, outcomes, lost, clock).doc.results,
                                        Len(outcomes))[j]
                        IN  /\ entry.platform = w[k].post.platforms[j]
                            /\ entry.success = (outcomes[j] = "ok"))
    /\ [][\A k \in Workers :
            Finishes(k) /\ Len(schedulerLogs'[w[k].post.id]) - Len(schedulerLogs[w[k].post.id])
                              < Len(w[k].post.platforms) =>
               Len(Appended(w[k].post.id)) = Len(w[k].post.platforms)]_vars

\* A dispatch has finished with a log entry lost: the post holds a result
\* the attempt log does not.
C18_Witness ==
    \E id \in Posts :
        /\ Len(schedulerLogs[id]) < Len(store[id].results)
        /\ store[id].status \in FinalStatuses
        /\ completed[id] > 0

\* publishPost, called by handler k, throws in this step.  (The manual
\* trigger's refusal of a post that is not scheduled is schedulePost's own.)
Raises(k) ==
    /\ w[k].pc \in {"begin", "publish"}
    /\ Catches(k)
    /\ ~(k \in Manuals /\ w[k].pc = "begin" /\ w[k].post.status # "scheduled")

\* C19: publishPost throws only in a step in which a save of the post fails
\* (the store is left as it was); a dispatch whose platforms all failed is
\* saved and returns to its caller like any other.
C19_RaisesOnlyOnSaveFailure ==
    /\ [][\A k \in Workers : Raises(k) => store' = store /\ budget' < budget]_vars
    /\ [][\A k \in Workers : Ends(k) /\ budget' = budget =>
            /\ ~Raises(k)
            /\ Len(Appended(w[k].post.id)) = Len(w[k].post.platforms)]_vars

\* The manual trigger has returned success from a dispatch that failed on
\* every platform: no post is posted.
C19_Witness ==
    /\ returned = [who |-> "m1", result |-> "success"]
    /\ \A id \in Posts : store[id].status # "posted"
    /\ \E id \in Posts : completed[id] > 0 /\ ~AnySuccess(store[id].results)

\* The manual trigger m answers in this step.
Answers(m) == returned'.who = m /\ (w[m].pc # "idle" \/ budget' < budget)

\* The post the manual trigger m has read is not scheduled.
NotScheduled(m) == w[m].pc = "begin" /\ w[m].post.status # "scheduled"

\* C20: the manual trigger answers success or error and nothing else.  Asked
\* for a post that is missing or that it read as not scheduled, it answers
\* error and changes no post.  A dispatch it finishes answers success, whether
\* or not a platform succeeded.  It answers error only for a missing post, a
\* post not scheduled, or a store operation that failed, and no post changes
\* in the step of an error.
C20_ManualTrigger ==
    /\ [][\A m \in Manuals : Answers(m) =>
            /\ returned'.result \in {"success", "error"}
            /\ w'[m] = IdleWorker]_vars
    /\ [][\A m \in Manuals : NotScheduled(m) /\ w'[m] # w[m] =>
            /\ returned' = [who |-> m, result |-> "error"]
            /\ store' = store]_vars
    /\ [][\A m \in Manuals : w[m].pc = "idle" /\ Answers(m) =>
            /\ returned'.result = "error"
            /\ store' = store]_vars
    /\ [][\A m \in Manuals : Finishes(m) => returned' = [who |-> m, result |-> "success"]]_vars
    /\ [][\A m \in Manuals : Answers(m) /\ returned'.result = "error" =>
            /\ store' = store
            /\ \/ NotScheduled(m) /\ budget' = budget
               \/ w[m].pc = "idle" /\ budget' \in {budget - 1, budget - 2}
               \/ w[m].pc \in {"begin", "publish"} /\ ~NotScheduled(m) /\ budget' < budget]_vars

\* The manual trigger has answered error for a post it read as not
\* scheduled or did not find: nothing else has happened, and no store
\* operation has failed.
C20_Witness ==
    /\ returned = [who |-> "m1", result |-> "error"]
    /\ budget = MaxEvents - 1
    /\ clock = 0
    /\ \A id \in Posts : store[id].status # "posting"

\* The attempt-log entries the step writes for post id.
Logged(id) ==
    SubSeq(schedulerLogs'[id], Len(schedulerLogs[id]) + 1, Len(schedulerLogs'[id]))

\* The number of entries of seq for platform with the given success.
CountOf(seq, platform, success) ==
    Cardinality({j \in DOMAIN seq : seq[j].platform = platform /\ seq[j].success = success})

\* The attempt-log entries as (platform, success) pairs.
AsResults(logs) ==
    [j \in DOMAIN logs |-> [platform |-> logs[j].platform,
                            success |-> (logs[j].status = "success")]]

\* C21: when the final save of a dispatch succeeds, every attempt-log entry
\* the dispatch wrote has its platform result among the results the save
\* appends: for each platform and outcome, the post gains at least as many
\* results as the log gains entries, and no more log entries are written
\* than attempts were made.
C21_LogImpliesResult ==
    /\ [][\A k \in Workers : Finishes(k) =>
            \A p \in {"twitter", "linkedin", "instagram"}, s \in BOOLEAN :
               CountOf(AsResults(Logged(w[k].post.id)), p, s)
                  <= CountOf(Appended(w[k].post.id), p, s)]_vars
    /\ [](\A id \in Posts : Len(schedulerLogs[id]) <= logRequests[id])

\* A dispatch of this run has posted a post, and its log entry and its result
\* are both stored.
C21_Witness ==
    \E id \in Posts :
        /\ store[id].status = "posted"
        /\ Len(schedulerLogs[id]) > 0
        /\ Len(schedulerLogs[id]) = Len(store[id].results)

\* Post id is left in posting: its status flip is stored and no dispatch of it
\* is under way, the final save having failed.
Stranded(id) == store[id].status = "posting" /\ InFlight(id) = {}

\* C22: a post left in posting stays so: the due-post query does not return
\* it, and no step of the scheduler changes its status or takes up a dispatch
\* of it again.
C22_StuckInPosting ==
    /\ [](\A id \in Posts : Stranded(id) =>
            \A now \in clock..(clock + RetryDelayMinutes) : id \notin ReturnedByQuery(now))
    /\ [][\A id \in Posts : Stranded(id) =>
            store'[id].status = "posting" /\ InFlight(id)' = {}]_vars

\* C23: an update request never changes a post whose stored status is posted
\* and never answers it with success, also when the post became posted
\* between the request's read and its write.
C23_PostedImmutable ==
    [][req.pc = "update" /\ req'.pc = "idle" /\ store[req.id].status = "posted" =>
          /\ store'[req.id] = store[req.id]
          /\ returned'.result # "updated"]_vars

\* The statuses of the post state machine.
Statuses == {"draft", "scheduled", "posting", "posted", "failed"}

\* C24: the status of every stored post is one of draft, scheduled, posting,
\* posted and failed.
C24_StatusDomain == \A id \in Posts : store[id].status \in Statuses

\* Handler k, inside publishPost, takes a step.
Acts(k) == w[k].pc \in {"begin", "publish"} /\ w'[k] # w[k]

\* The paths of a post a dispatch may write.
DispatchPaths == {"status", "lastAttempt", "results", "retryCount", "scheduledAt"}

\* C25: a step of a dispatch changes no post but its own, of its own post
\* only status, lastAttempt, results, retryCount and scheduledAt (content,
\* platforms and owner stay), and not the owner's connected accounts; and
\* nothing but a step of a dispatch changes a post.
C25_Frame ==
    /\ [][\A k \in Workers : Acts(k) =>
            /\ \A id \in Posts \ {w[k].post.id} : store'[id] = store[id]
            /\ \A f \in DOMAIN store[w[k].post.id] \ DispatchPaths :
                  store'[w[k].post.id][f] = store[w[k].post.id][f]
            /\ connectedAccounts' = connectedAccounts]_vars
    /\ [][store' # store => \E k \in Workers : Acts(k)]_vars

\* A dispatch has posted one post, with its content, platforms and owner as
\* they were, and the other post has not been touched.
C25_Witness ==
    \E a, b \in Posts :
        /\ a # b
        /\ store[a].status = "posted" /\ store[a].results # <<>>
        /\ store[a].content = 1 /\ store[a].userId = "u1"
        /\ store[b].status \in {"draft", "scheduled"} /\ store[b].lastAttempt = {}

\* The contents validateContent is applied to.
Contents == [text : {0} \cup TextLengths, hashtags : {0, 2, 3}, media : {0, 4, 5}]

\* C26: validateContent gives isValid exactly when it gives no error, and a
\* text error exactly when the text is longer than the textLimit of the
\* platform; and every stored post, created or updated through the routes,
\* has a text no longer than the textLimit of each of its target platforms.
C26_ValidatedContent ==
    /\ \A p \in Platforms, c \in Contents :
          /\ validateContent(p, c).isValid <=> validateContent(p, c).errors = <<>>
          /\ (\E j \in DOMAIN validateContent(p, c).errors :
                  validateContent(p, c).errors[j] = "text")
                <=> c.text > getPlatformLimits(p).textLimit
    /\ \A id \in Posts : \A j \in DOMAIN store[id].platforms :
          store[id].content <= getPlatformLimits(store[id].platforms[j]).textLimit

\* C27: whenever a tick enters publishPost for a post, the first of its list
\* or a later one, the stored status of that post is scheduled.
C27_ScheduledWhenDispatched ==
    [][\A t \in Ticks : Begins(t) => store[w[t].post.id].status = "scheduled"]_vars

\* C28: with ticks only and a store that never fails, a post is dispatched at
\* most MaxRetries times in all (the dispatches before the first observation
\* counted), and a post that is failed has been dispatched exactly
\* MaxRetries times.
C28_BoundedDispatches ==
    \A id \in Posts :
       /\ completed[id] <= MaxRetries
       /\ store[id].status = "failed" => completed[id] = MaxRetries

\* C29: with ticks only, a dispatch of a post starts no sooner than
\* RetryDelayMinutes after the start of the dispatch before it, and a post
\* that waits for a retry is due no sooner than RetryDelayMinutes after its
\* last attempt.
C29_RetrySpacing ==
    /\ [](\A id \in Posts : \A last \in store[id].lastAttempt :
            store[id].status = "scheduled" /\ store[id].retryCount > 0 =>
               store[id].scheduledAt >= last + RetryDelayMinutes)
    /\ [][\A t \in Ticks : Begins(t) =>
            \A last \in store[w[t].post.id].lastAttempt :
               clock >= last + RetryDelayMinutes]_vars

\* C30: whatever calls of start() and stop() have been made, isRunning is
\* true exactly when a job exists, the job has exactly one live timer and
\* there is no timer without a job, and getStatus() gives nextRun null
\* exactly when it gives running false.
C30_RunningIffTimer ==
    /\ isRunning <=> cronJob # "null"
    /\ timers \in {0, 1}
    /\ timers = 1 <=> cronJob # "null"
    /\ getStatus.nextRun = "null" <=> ~getStatus.running

\* The scheduler has been stopped and started again: it runs on a new job.
C30_Witness ==
    /\ returned = [who |-> "start", result |-> "started"]
    /\ isRunning /\ cronJob = "job" /\ timers = 1
    /\ getStatus.nextRun # "null"

====
